---- MODULE Spec2Model ----
(***************************************************************************)
(* Banquet seating editor (app.py / app_nojs.py / main.py).               *)
(*                                                                         *)
(* A DataFrame is a sequence of guest rows; the position in the sequence   *)
(* is the row's index label.  One action is one Streamlit script run:      *)
(* load_data, the handler of the widget that triggered the run, the save,  *)
(* and the grid render of the run that follows.                            *)
(***************************************************************************)
EXTENDS Integers, Sequences, FiniteSets, TLC

VARIABLES rows, cols, layout_view, grid_mode, edit_target,
          store, df, grid_data, msgs, last, writes, runs

vars == <<rows, cols, layout_view, grid_mode, edit_target,
          store, df, grid_data, msgs, last, writes, runs>>

session == <<rows, cols, layout_view, grid_mode, edit_target>>

(***************************************************************************)
(* Program constants                                                       *)
(***************************************************************************)
TEMP_ID == -999

MAX_DIM == 20

None == 0

DEFAULT_ROWS == 7

DEFAULT_COLS == 9

NaN == "nan"

(***************************************************************************)
(* Bounds of the model                                                     *)
(***************************************************************************)
MaxGridRows == 2

MaxGridCols == 3

MaxTable == 3

MaxGuests == 2

MaxSwapGuests == 3

MaxEdited == 2

MaxWrites == 1

MaxSimGuests == 3

MaxSimRows == 2

MaxAnchors == 3

MaxReportGuests == 2

MaxOrder == 3

MaxPlanOrder == 5

(***************************************************************************)
(* Numbering schemes                                                       *)
(***************************************************************************)
\* Mutant: the identifier is computed 0-based.
get_table_id_zero_based(r, c, n_cols) == (r * n_cols) + c

get_table_id(r, c, n_cols) == (r * n_cols) + (c + 1)

\* Mutant: the row offset is forgotten, every row numbers from 1.
get_table_id_oddeven_no_offset(r, c, n_cols) ==
    LET row_nums == [i \in 1..n_cols |-> i]
        odds == SelectSeq(row_nums, LAMBDA n : n % 2 # 0)
        evens == SelectSeq(row_nums, LAMBDA n : n % 2 = 0)
        sorted_nums == odds \o evens
    IN  sorted_nums[c + 1]

\* Mutant: the even numbers of the row come first.
get_table_id_oddeven_evens_first(r, c, n_cols) ==
    LET start_num == (r * n_cols) + 1
        end_num == (r + 1) * n_cols
        row_nums == [i \in 1..(end_num - start_num + 1) |-> start_num + (i - 1)]
        odds == SelectSeq(row_nums, LAMBDA n : n % 2 # 0)
        evens == SelectSeq(row_nums, LAMBDA n : n % 2 = 0)
        sorted_nums == evens \o odds
    IN  sorted_nums[c + 1]

get_table_id_oddeven(r, c, n_cols) ==
    LET start_num == (r * n_cols) + 1
        end_num == (r + 1) * n_cols
        row_nums == [i \in 1..(end_num - start_num + 1) |-> start_num + (i - 1)]
        odds == SelectSeq(row_nums, LAMBDA n : n % 2 # 0)
        evens == SelectSeq(row_nums, LAMBDA n : n % 2 = 0)
        sorted_nums == odds \o evens
    IN  sorted_nums[c + 1]

\* Mutant: the display id is used as the 0-based index.
get_data_id_from_display_id_off_by_one(display_id, n_rows, n_cols, mode) ==
    IF mode # "Odd/Even"
    THEN display_id
    ELSE LET idx == display_id
             r == idx \div n_cols
             c == idx % n_cols
         IN  get_table_id_oddeven(r, c, n_cols)

\* Helper of the grid view: display id -> data id under the current mode.
get_data_id_from_display_id(display_id, n_rows, n_cols, mode) ==
    IF mode # "Odd/Even"
    THEN display_id
    ELSE LET idx == display_id - 1
             r == idx \div n_cols
             c == idx % n_cols
         IN  get_table_id_oddeven(r, c, n_cols)

\* The edit form resolves its data id with its own copy of the arithmetic.
edit_data_tid(display_tid, n_cols, mode) ==
    IF mode = "Odd/Even"
    THEN LET idx == display_tid - 1
             r == idx \div n_cols
             c == idx % n_cols
         IN  get_table_id_oddeven(r, c, n_cols)
    ELSE display_tid

(***************************************************************************)
(* Guest store: the CSV file and its load / save                           *)
(***************************************************************************)
\* A cell of the CSV's table_number column: a number, or text that
\* pd.to_numeric(errors='coerce') turns into NaN.
NumCell(n) == [num |-> TRUE, val |-> n]

BadCell == [num |-> FALSE, val |-> 0]

load_data(file) ==
    [i \in DOMAIN file |->
        [file[i] EXCEPT !.table_number =
            IF file[i].table_number.num THEN file[i].table_number.val ELSE 0]]

\* df.to_csv: every table_number of a loaded frame is an int and is written
\* as a number.
to_csv(frame) ==
    [i \in DOMAIN frame |->
        [frame[i] EXCEPT !.table_number = NumCell(frame[i].table_number)]]

(***************************************************************************)
(* Seating store operations                                                *)
(***************************************************************************)
\* Mutant: direct relabel without a temporary id (the aliasing bug).
swap_tables_no_temp(frame, t1_id, t2_id) ==
    LET f1 == [i \in DOMAIN frame |->
                 IF frame[i].table_number = t1_id
                 THEN [frame[i] EXCEPT !.table_number = t2_id]
                 ELSE frame[i]]
    IN  [i \in DOMAIN frame |->
           IF f1[i].table_number = t2_id
           THEN [f1[i] EXCEPT !.table_number = t1_id]
           ELSE f1[i]]

\* Mutant: the last phase relabels every row that is not tagged t1_id.
swap_tables_wide_mask(frame, t1_id, t2_id) ==
    LET t1_rows == {i \in DOMAIN frame : frame[i].table_number = t1_id}
        t2_rows == {i \in DOMAIN frame : frame[i].table_number = t2_id}
        f1 == [i \in DOMAIN frame |->
                 IF i \in t1_rows
                 THEN [frame[i] EXCEPT !.table_number = TEMP_ID]
                 ELSE frame[i]]
        f2 == [i \in DOMAIN frame |->
                 IF i \in t2_rows
                 THEN [f1[i] EXCEPT !.table_number = t1_id]
                 ELSE f1[i]]
    IN  [i \in DOMAIN frame |->
           IF f2[i].table_number # t1_id
           THEN [f2[i] EXCEPT !.table_number = t2_id]
           ELSE f2[i]]

\* Mutant: the second phase is missing, t2's rows are never moved.
swap_tables_one_way(frame, t1_id, t2_id) ==
    [i \in DOMAIN frame |->
        IF frame[i].table_number = t1_id
        THEN [frame[i] EXCEPT !.table_number = t2_id]
        ELSE frame[i]]

\* Mutant: the temporary id is 0, the id of unassigned rows.
swap_tables_temp_zero(frame, t1_id, t2_id) ==
    LET t1_rows == {i \in DOMAIN frame : frame[i].table_number = t1_id}
        t2_rows == {i \in DOMAIN frame : frame[i].table_number = t2_id}
        f1 == [i \in DOMAIN frame |->
                 IF i \in t1_rows
                 THEN [frame[i] EXCEPT !.table_number = 0]
                 ELSE frame[i]]
        f2 == [i \in DOMAIN frame |->
                 IF i \in t2_rows
                 THEN [f1[i] EXCEPT !.table_number = t1_id]
                 ELSE f1[i]]
    IN  [i \in DOMAIN frame |->
           IF f2[i].table_number = 0
           THEN [f2[i] EXCEPT !.table_number = t2_id]
           ELSE f2[i]]

\* Mutant: the third phase is missing, t1's rows stay under the temporary id.
swap_tables_no_restore(frame, t1_id, t2_id) ==
    LET t1_rows == {i \in DOMAIN frame : frame[i].table_number = t1_id}
        t2_rows == {i \in DOMAIN frame : frame[i].table_number = t2_id}
        f1 == [i \in DOMAIN frame |->
                 IF i \in t1_rows
                 THEN [frame[i] EXCEPT !.table_number = TEMP_ID]
                 ELSE frame[i]]
        f2 == [i \in DOMAIN frame |->
                 IF i \in t2_rows
                 THEN [f1[i] EXCEPT !.table_number = t1_id]
                 ELSE f1[i]]
    IN  f2

swap_tables(frame, t1_id, t2_id) ==
    LET t1_rows == {i \in DOMAIN frame : frame[i].table_number = t1_id}
        t2_rows == {i \in DOMAIN frame : frame[i].table_number = t2_id}
        f1 == [i \in DOMAIN frame |->
                 IF i \in t1_rows
                 THEN [frame[i] EXCEPT !.table_number = TEMP_ID]
                 ELSE frame[i]]
        f2 == [i \in DOMAIN frame |->
                 IF i \in t2_rows
                 THEN [f1[i] EXCEPT !.table_number = t1_id]
                 ELSE f1[i]]
        f3 == [i \in DOMAIN frame |->
                 IF f2[i].table_number = TEMP_ID
                 THEN [f2[i] EXCEPT !.table_number = t2_id]
                 ELSE f2[i]]
    IN  f3

(***************************************************************************)
(* Grid render                                                             *)
(***************************************************************************)
VacantInfo == [occupied |-> FALSE, group |-> "", count |-> 0]

\* table_map.get(tid, vacant): groupby('table_number'), first row's gp_name.
table_map_get(frame, tid) ==
    LET group == {i \in DOMAIN frame : frame[i].table_number = tid}
    IN  IF group = {}
        THEN VacantInfo
        ELSE LET first == CHOOSE i \in group : \A j \in group : i <= j
             IN  [occupied |-> TRUE,
                  group |-> IF frame[first].gp_name = NaN
                            THEN "Unknown" ELSE frame[first].gp_name,
                  count |-> Cardinality(group)]

\* The data id the render loop looks up for grid position (r, c).
render_data_id(r, c, n_cols, mode) ==
    IF mode = "Odd/Even"
    THEN get_table_id_oddeven(r, c, n_cols)
    ELSE get_table_id(r, c, n_cols)

\* grid_data: one cell per position, appended row by row.  data_id is the
\* loop's local variable; the surface receives id, occupied, group, count.
render_grid(frame, n_rows, n_cols, mode) ==
    [k \in 1..(n_rows * n_cols) |->
        LET r == (k - 1) \div n_cols
            c == (k - 1) % n_cols
            display_id == get_table_id(r, c, n_cols)
            data_id == render_data_id(r, c, n_cols, mode)
            data == table_map_get(frame, data_id)
        IN  [id |-> display_id, data_id |-> data_id,
             occupied |-> data.occupied, group |-> data.group,
             count |-> data.count]]

(***************************************************************************)
(* Input sets                                                              *)
(***************************************************************************)
LayoutViews == {"Sequential", "Odd/Even"}

GridModes == {"Move", "Edit"}

\* The (seat, name, menu, gp_id, gp_name) payload of the i-th row of the file.
Payload(i) ==
    CASE i = 1 -> [seat |-> 1, name |-> "Ali", menu |-> "Ayam",
                   gp_id |-> 1, gp_name |-> "A"]
      [] i = 2 -> [seat |-> 2, name |-> "Siti", menu |-> "Daging",
                   gp_id |-> 1, gp_name |-> NaN]
      [] i = 3 -> [seat |-> 1, name |-> "Simpanan A", menu |-> "Ikan",
                   gp_id |-> 2, gp_name |-> "B"]
      [] OTHER -> [seat |-> i, name |-> "Tetamu", menu |-> "Vegetarian",
                   gp_id |-> 3, gp_name |-> "B"]

GuestRow(i, tn) ==
    [table_number |-> tn, seat |-> Payload(i).seat, name |-> Payload(i).name,
     menu |-> Payload(i).menu, gp_id |-> Payload(i).gp_id,
     gp_name |-> Payload(i).gp_name]

\* table_number values a file may carry, the sentinel's value included.
TableNumbers == {TEMP_ID} \cup (0..MaxTable)

Frames(max_len) ==
    UNION {{[i \in 1..n |-> GuestRow(i, tns[i])] : tns \in [1..n -> TableNumbers]}
           : n \in 0..max_len}

Files(max_len) ==
    UNION {{[i \in 1..n |-> GuestRow(i, cells[i])] :
              cells \in [1..n -> {NumCell(t) : t \in TableNumbers} \cup {BadCell}]}
           : n \in 0..max_len}

NoOp == [op |-> "none", d1 |-> 0, d2 |-> 0, t1 |-> 0, t2 |-> 0,
         before |-> <<>>, result |-> <<>>, ok |-> TRUE,
         repeat |-> FALSE, origin |-> <<>>,
         group |-> "", edited |-> <<>>, id_map |-> <<>>,
         insert_after_ids |-> <<>>, new_order |-> <<>>, new_ids |-> <<>>,
         summary |-> <<>>, floor_plan |-> <<>>, guest_list |-> <<>>,
         by |-> ""]

\* Browser sessions with a script run of their own: each run loads the file
\* into its own frame (app.py l.113) and saves from that frame.
Sessions == {"A", "B"}

NoRuns == [s \in Sessions |-> [pc |-> "idle", df |-> <<>>, saved |-> FALSE]]

(***************************************************************************)
(* Session actions (app.py main)                                           *)
(***************************************************************************)
\* Grid Settings: number inputs changed, st.rerun().
Resize(new_rows, new_cols) ==
    /\ new_rows # rows \/ new_cols # cols
    /\ rows' = new_rows
    /\ cols' = new_cols
    /\ df' = load_data(store)
    /\ grid_data' = render_grid(df', new_rows, new_cols, layout_view)
    /\ msgs' = {}
    /\ last' = NoOp
    /\ UNCHANGED <<layout_view, grid_mode, edit_target, store, writes, runs>>

\* Grid Numbering radio.
SetLayout(view) ==
    /\ view # layout_view
    /\ layout_view' = view
    /\ df' = load_data(store)
    /\ grid_data' = render_grid(df', rows, cols, view)
    /\ msgs' = {}
    /\ last' = NoOp
    /\ UNCHANGED <<rows, cols, grid_mode, edit_target, store, writes, runs>>

\* Grid Mode radio.
SetGridMode(g_mode) ==
    /\ g_mode # grid_mode
    /\ grid_mode' = g_mode
    /\ df' = load_data(store)
    /\ grid_data' = render_grid(df', rows, cols, layout_view)
    /\ msgs' = {}
    /\ last' = NoOp
    /\ UNCHANGED <<rows, cols, layout_view, edit_target, store, writes, runs>>

\* "Refresh Data" button: a plain rerun.
RefreshData ==
    /\ df' = load_data(store)
    /\ grid_data' = render_grid(df', rows, cols, layout_view)
    /\ msgs' = {}
    /\ last' = NoOp
    /\ UNCHANGED <<session, store, writes, runs>>

\* The display ids the rendering surface was handed on the last redraw.
ShownIds == {grid_data[k].id : k \in DOMAIN grid_data}

\* Gesture {action: "edit", tableId}: remember the target, rerun.
EditGesture(d_tid) ==
    /\ d_tid \in ShownIds
    /\ edit_target' = d_tid
    /\ df' = load_data(store)
    /\ grid_data' = render_grid(df', rows, cols, layout_view)
    /\ msgs' = {}
    /\ last' = NoOp
    /\ UNCHANGED <<rows, cols, layout_view, grid_mode, store, writes, runs>>

\* Mutant: the submitted rows are appended without removing the old ones.
edit_save_frame_merge(frame, data_tid, new_group_name, edited_guests) ==
    frame \o [i \in DOMAIN edited_guests |->
                [table_number |-> data_tid,
                 seat |-> edited_guests[i].seat,
                 name |-> edited_guests[i].name,
                 menu |-> edited_guests[i].menu,
                 gp_id |-> 0,
                 gp_name |-> new_group_name]]

\* Body of "Save Changes": drop the table's rows, append the edited ones.
edit_save_frame(frame, data_tid, new_group_name, edited_guests) ==
    LET kept == SelectSeq(frame, LAMBDA row : row.table_number # data_tid)
        tagged == [i \in DOMAIN edited_guests |->
                     [table_number |-> data_tid,
                      seat |-> edited_guests[i].seat,
                      name |-> edited_guests[i].name,
                      menu |-> edited_guests[i].menu,
                      gp_id |-> 0,
                      gp_name |-> new_group_name]]
    IN  IF edited_guests # <<>> THEN kept \o tagged ELSE kept

\* Rows the data editor can hand back: the first n of a fixed edit.
EditorRow(i) ==
    IF i = 1 THEN [seat |-> 1, name |-> "Aminah", menu |-> "Ikan"]
             ELSE [seat |-> i, name |-> "Reserve", menu |-> "Reserve"]

EditedGuests == {[i \in 1..n |-> EditorRow(i)] : n \in 0..MaxEdited}

GroupNames == {"VIP"}

\* Edit form, "Save Changes" pressed.
SaveChanges(new_group_name, edited_guests, ok) ==
    /\ grid_mode = "Edit"
    /\ edit_target # None
    /\ LET loaded == load_data(store)
           display_tid == edit_target
           data_tid == edit_data_tid(display_tid, cols, layout_view)
           new_df == edit_save_frame(loaded, data_tid, new_group_name, edited_guests)
       IN  /\ store' = IF ok THEN to_csv(new_df) ELSE store
           /\ df' = IF ok THEN load_data(store') ELSE new_df
           /\ msgs' = IF ok THEN {"Saved!"} ELSE {"Error saving data"}
           /\ last' = [NoOp EXCEPT !.op = "edit_save", !.d1 = display_tid,
                                   !.t1 = data_tid, !.before = loaded,
                                   !.result = new_df, !.ok = ok,
                                   !.group = new_group_name,
                                   !.edited = edited_guests]
    /\ grid_data' = render_grid(df', rows, cols, layout_view)
    /\ writes' = writes + 1
    /\ UNCHANGED <<session, runs>>

\* Mutant: the display ids of the gesture are used as data ids.
SwapGesture_untranslated(d_t1, d_t2, ok) ==
    /\ d_t1 \in ShownIds
    /\ d_t2 \in ShownIds
    /\ d_t1 # d_t2
    /\ LET loaded == load_data(store)
           t1 == d_t1
           t2 == d_t2
           new_df == swap_tables(loaded, t1, t2)
       IN  /\ store' = IF ok THEN to_csv(new_df) ELSE store
           /\ msgs' = IF ok THEN {"Swapped"} ELSE {"Error saving data", "Swapped"}
           /\ last' = [NoOp EXCEPT !.op = "swap", !.d1 = d_t1, !.d2 = d_t2,
                                   !.t1 = t1, !.t2 = t2, !.before = loaded,
                                   !.result = new_df, !.ok = ok]
    /\ df' = load_data(store')
    /\ grid_data' = render_grid(df', rows, cols, layout_view)
    /\ writes' = writes + 1
    /\ UNCHANGED <<session, runs>>

\* Gesture {action: "swap", fromId, toId}.
SwapGesture(d_t1, d_t2, ok) ==
    /\ d_t1 \in ShownIds
    /\ d_t2 \in ShownIds
    /\ d_t1 # d_t2
    /\ LET loaded == load_data(store)
           t1 == get_data_id_from_display_id(d_t1, rows, cols, layout_view)
           t2 == get_data_id_from_display_id(d_t2, rows, cols, layout_view)
           new_df == swap_tables(loaded, t1, t2)
       IN  /\ store' = IF ok THEN to_csv(new_df) ELSE store
           /\ msgs' = IF ok THEN {"Swapped"} ELSE {"Error saving data", "Swapped"}
           /\ last' = [NoOp EXCEPT !.op = "swap", !.d1 = d_t1, !.d2 = d_t2,
                                   !.t1 = t1, !.t2 = t2, !.before = loaded,
                                   !.result = new_df, !.ok = ok]
    /\ df' = load_data(store')
    /\ grid_data' = render_grid(df', rows, cols, layout_view)
    /\ writes' = writes + 1
    /\ UNCHANGED <<session, runs>>

\* Mutant: the new id is computed with the Sequential scheme as well.
reassign_id_map_sequential(n_rows, n_cols) ==
    LET positions == (0..(n_rows - 1)) \X (0..(n_cols - 1))
        keys == {get_table_id(p[1], p[2], n_cols) : p \in positions}
    IN  [old_id \in keys |-> old_id]

\* id_map of "Reassign to Odd/Even": Sequential id -> Odd/Even id of the
\* same grid position, for every position of the current grid.
reassign_id_map(n_rows, n_cols) ==
    LET positions == (0..(n_rows - 1)) \X (0..(n_cols - 1))
        keys == {get_table_id(p[1], p[2], n_cols) : p \in positions}
    IN  [old_id \in keys |->
            LET p == CHOOSE q \in positions : get_table_id(q[1], q[2], n_cols) = old_id
            IN  get_table_id_oddeven(p[1], p[2], n_cols)]

\* Mutant: the pairs of the map are applied one after the other, in key
\* order, each to the outcome of the one before.
RECURSIVE replace_chained_from(_, _, _)
replace_chained_from(frame, id_map, key) ==
    IF key \notin DOMAIN id_map
    THEN frame
    ELSE replace_chained_from(
            [i \in DOMAIN frame |->
                IF frame[i].table_number = key
                THEN [frame[i] EXCEPT !.table_number = id_map[key]]
                ELSE frame[i]],
            id_map, key + 1)

replace_chained(frame, id_map) == replace_chained_from(frame, id_map, 1)

\* new_df['table_number'].replace(id_map)
replace(frame, id_map) ==
    [i \in DOMAIN frame |->
        IF frame[i].table_number \in DOMAIN id_map
        THEN [frame[i] EXCEPT !.table_number = id_map[frame[i].table_number]]
        ELSE frame[i]]

\* "Reassign to Odd/Even" button.
Reassign(ok) ==
    /\ LET loaded == load_data(store)
           id_map == reassign_id_map(rows, cols)
           new_df == replace(loaded, id_map)
       IN  /\ loaded # <<>>
           /\ store' = IF ok THEN to_csv(new_df) ELSE store
           /\ df' = IF ok THEN load_data(store') ELSE loaded
           /\ msgs' = IF ok THEN {"Renumbering Complete!"}
                            ELSE {"Error saving data", "Failed to save data."}
           /\ last' = [NoOp EXCEPT !.op = "renumber", !.before = loaded,
                                   !.result = new_df, !.ok = ok,
                                   !.id_map = id_map]
    /\ grid_data' = render_grid(df', rows, cols, layout_view)
    /\ writes' = writes + 1
    /\ UNCHANGED <<session, runs>>

(***************************************************************************)
(* The editor: any file, any grid the settings allow within the bounds     *)
(***************************************************************************)
Init ==
    /\ rows \in 1..MaxGridRows
    /\ cols \in 1..MaxGridCols
    /\ layout_view = "Sequential"
    /\ grid_mode = "Move"
    /\ edit_target = None
    /\ store \in Files(MaxGuests)
    /\ df = load_data(store)
    /\ grid_data = render_grid(df, rows, cols, layout_view)
    /\ msgs = {}
    /\ last = NoOp
    /\ writes = 0
    /\ runs = NoRuns

Next ==
    \/ \E new_rows \in 1..MaxGridRows, new_cols \in 1..MaxGridCols :
          Resize(new_rows, new_cols)
    \/ \E view \in LayoutViews : SetLayout(view)
    \/ \E g_mode \in GridModes : SetGridMode(g_mode)
    \/ RefreshData
    \/ \E d_tid \in 1..(MaxGridRows * MaxGridCols) : EditGesture(d_tid)
    \/ /\ writes < MaxWrites
       /\ \E new_group_name \in GroupNames, edited_guests \in EditedGuests,
             ok \in BOOLEAN :
             SaveChanges(new_group_name, edited_guests, ok)
    \/ /\ writes < MaxWrites
       /\ \E d_t1 \in 1..(MaxGridRows * MaxGridCols),
             d_t2 \in 1..(MaxGridRows * MaxGridCols), ok \in BOOLEAN :
             SwapGesture(d_t1, d_t2, ok)
    \/ /\ writes < MaxWrites
       /\ \E ok \in BOOLEAN : Reassign(ok)

Spec == Init /\ [][Next]_vars

(***************************************************************************)
(* One "Save Changes" from every file, grid, numbering and edit target     *)
(***************************************************************************)
InitEdit ==
    /\ rows \in 1..MaxGridRows
    /\ cols \in 1..MaxGridCols
    /\ layout_view \in LayoutViews
    /\ grid_mode = "Edit"
    /\ edit_target \in 1..(rows * cols)
    /\ store \in Files(MaxGuests)
    /\ df = load_data(store)
    /\ grid_data = render_grid(df, rows, cols, layout_view)
    /\ msgs = {}
    /\ last = NoOp
    /\ writes = 0
    /\ runs = NoRuns

NextEdit ==
    /\ last.op = "none"
    /\ \E new_group_name \in GroupNames, edited_guests \in EditedGuests,
          ok \in BOOLEAN :
          SaveChanges(new_group_name, edited_guests, ok)

SpecEdit == InitEdit /\ [][NextEdit]_vars

(***************************************************************************)
(* One "Reassign to Odd/Even" from every file and grid                     *)
(***************************************************************************)
InitRenumber ==
    /\ rows \in 1..MaxGridRows
    /\ cols \in 1..MaxGridCols
    /\ layout_view = "Sequential"
    /\ grid_mode = "Move"
    /\ edit_target = None
    /\ store \in Files(MaxGuests)
    /\ df = load_data(store)
    /\ grid_data = render_grid(df, rows, cols, layout_view)
    /\ msgs = {}
    /\ last = NoOp
    /\ writes = 0
    /\ runs = NoRuns

NextRenumber ==
    /\ last.op = "none"
    /\ \E ok \in BOOLEAN : Reassign(ok)

SpecRenumber == InitRenumber /\ [][NextRenumber]_vars

(***************************************************************************)
(* Numbering schemes over the whole configuration range                    *)
(***************************************************************************)
InitGrid ==
    /\ rows \in 1..MAX_DIM
    /\ cols \in 1..MAX_DIM
    /\ layout_view = "Sequential"
    /\ grid_mode = "Move"
    /\ edit_target = None
    /\ store = <<>>
    /\ df = <<>>
    /\ grid_data = render_grid(df, rows, cols, layout_view)
    /\ msgs = {}
    /\ last = NoOp
    /\ writes = 0
    /\ runs = NoRuns

NextGrid == \E view \in LayoutViews : SetLayout(view)

SpecGrid == InitGrid /\ [][NextGrid]_vars

Positions == (0..(rows - 1)) \X (0..(cols - 1))

\* C1: for the rows and cols of the configuration range 1..20, Sequential
\* and OddEvenSplit both map the grid positions one-to-one onto
\* 1..rows*cols: no identifier is missed and no two positions collide.
C1_SchemesAreBijections ==
    LET seq_ids == {get_table_id(p[1], p[2], cols) : p \in Positions}
        oe_ids == {get_table_id_oddeven(p[1], p[2], cols) : p \in Positions}
    IN  /\ seq_ids = 1..(rows * cols)
        /\ oe_ids = 1..(rows * cols)
        /\ Cardinality(seq_ids) = Cardinality(Positions)
        /\ Cardinality(oe_ids) = Cardinality(Positions)

\* A grid of the largest configured size has been drawn under Odd/Even.
C1_Witness ==
    /\ rows = MAX_DIM
    /\ cols = MAX_DIM
    /\ layout_view = "Odd/Even"
    /\ Len(grid_data) = MAX_DIM * MAX_DIM

\* C6: the display-to-data translation is the identity under Sequential and
\* is get_table_id_oddeven((d-1) div cols, (d-1) mod cols, cols) under
\* Odd/Even; for every cell the render loop emitted, the data id it looked
\* up is the data id the swap handler and the edit form compute from the
\* cell's display id.
C6_TranslationMatchesRender ==
    /\ \A d \in 1..(rows * cols) :
          /\ get_data_id_from_display_id(d, rows, cols, "Sequential") = d
          /\ get_data_id_from_display_id(d, rows, cols, "Odd/Even")
                = get_table_id_oddeven((d - 1) \div cols, (d - 1) % cols, cols)
    /\ \A k \in DOMAIN grid_data :
          /\ get_data_id_from_display_id(grid_data[k].id, rows, cols, layout_view)
                = grid_data[k].data_id
          /\ edit_data_tid(grid_data[k].id, cols, layout_view)
                = grid_data[k].data_id

\* A grid was drawn under Odd/Even with a cell whose data id differs from
\* its display id.
C6_Witness ==
    /\ layout_view = "Odd/Even"
    /\ \E k \in DOMAIN grid_data : grid_data[k].data_id # grid_data[k].id

SchemeId(mode, r, c) ==
    IF mode = "Odd/Even"
    THEN get_table_id_oddeven(r, c, cols)
    ELSE get_table_id(r, c, cols)

\* C7: under both schemes, translating a display id d of the grid to its
\* data id, recovering the grid position that the scheme numbers with that
\* data id, and numbering that position sequentially gives d back; the
\* translation is a permutation of 1..rows*cols.
C7_DisplayRoundTrip ==
    \A mode \in LayoutViews :
        LET \* <<scheme id, Sequential id>> of every grid position
            by_position == {<<SchemeId(mode, p[1], p[2]),
                              get_table_id(p[1], p[2], cols)>> : p \in Positions}
            \* <<data id, display id>> of every display id of the grid
            translated == {<<get_data_id_from_display_id(d, rows, cols, mode), d>>
                              : d \in 1..(rows * cols)}
        IN  /\ Cardinality({x[1] : x \in by_position}) = Cardinality(Positions)
            /\ translated \subseteq by_position
            /\ {x[1] : x \in translated} = 1..(rows * cols)

\* The default 7 x 9 grid is shown under Odd/Even, where display id 2
\* translates to data id 3.
C7_Witness ==
    /\ rows = 7
    /\ cols = 9
    /\ layout_view = "Odd/Even"
    /\ grid_data[2].id = 2
    /\ grid_data[2].data_id = 3
    /\ get_data_id_from_display_id(2, rows, cols, layout_view) = 3

(***************************************************************************)
(* swap_tables on its own, over bounded frames and identifiers             *)
(***************************************************************************)
InitSwap ==
    /\ rows = 1
    /\ cols = 1
    /\ layout_view = "Sequential"
    /\ grid_mode = "Move"
    /\ edit_target = None
    /\ store = <<>>
    /\ df \in Frames(MaxSwapGuests)
    /\ grid_data = <<>>
    /\ msgs = {}
    /\ last = NoOp
    /\ writes = 0
    /\ runs = NoRuns

\* One call new_df = swap_tables(df, t1_id, t2_id); the frame is changed in
\* place.  repeat / origin remember a directly preceding call with the same
\* identifiers and the frame that call started from.
SwapCall(t1_id, t2_id) ==
    /\ df' = swap_tables(df, t1_id, t2_id)
    /\ last' = [NoOp EXCEPT !.op = "swap_tables", !.t1 = t1_id, !.t2 = t2_id,
                            !.before = df, !.result = df',
                            !.repeat = /\ last.op = "swap_tables"
                                       /\ last.t1 = t1_id
                                       /\ last.t2 = t2_id,
                            !.origin = IF /\ last.op = "swap_tables"
                                          /\ last.t1 = t1_id
                                          /\ last.t2 = t2_id
                                       THEN last.before ELSE <<>>]
    /\ UNCHANGED <<session, store, grid_data, msgs, writes, runs>>

NextSwap == \E t1_id \in TableNumbers, t2_id \in TableNumbers : SwapCall(t1_id, t2_id)

SpecSwap == InitSwap /\ [][NextSwap]_vars

Tagged(frame, tid) == {i \in DOMAIN frame : frame[i].table_number = tid}

SamePayload(r1, r2) ==
    /\ r1.seat = r2.seat
    /\ r1.name = r2.name
    /\ r1.menu = r2.menu
    /\ r1.gp_id = r2.gp_id
    /\ r1.gp_name = r2.gp_name

Swapped == last.op = "swap_tables"

\* C2 as stated: after swap_tables(df, a, b) with a # b the rows tagged a
\* are exactly the rows tagged b before, and the rows tagged b are exactly
\* the rows tagged a before.
C2_Original ==
    (Swapped /\ last.t1 # last.t2) =>
        /\ Tagged(df, last.t1) = Tagged(last.before, last.t2)
        /\ Tagged(df, last.t2) = Tagged(last.before, last.t1)

\* C2 amended: the exchange holds when no row of the frame is tagged with
\* the sentinel -999 and neither identifier is -999; it holds also when one
\* or both tables have no rows.
C2_SwapExchangesOccupants ==
    (/\ Swapped
     /\ last.t1 # last.t2
     /\ last.t1 # TEMP_ID
     /\ last.t2 # TEMP_ID
     /\ Tagged(last.before, TEMP_ID) = {}) =>
        /\ Tagged(df, last.t1) = Tagged(last.before, last.t2)
        /\ Tagged(df, last.t2) = Tagged(last.before, last.t1)

\* A table with rows was swapped with a vacant one (the "table 7 empty,
\* table 3 occupied" scenario): the occupied side is now empty.
C2_Witness ==
    /\ Swapped
    /\ last.t1 # TEMP_ID
    /\ last.t2 # TEMP_ID
    /\ Tagged(last.before, TEMP_ID) = {}
    /\ Tagged(last.before, last.t1) = {}
    /\ Cardinality(Tagged(last.before, last.t2)) >= 2
    /\ Tagged(df, last.t2) = {}
    /\ Cardinality(Tagged(df, last.t1)) >= 2

\* C3 as stated: for any frame and any a, b the call keeps the number of
\* rows and every row's payload, and changes table_number only on rows
\* that were tagged a or b.
C3_Original ==
    Swapped =>
        /\ Len(df) = Len(last.before)
        /\ \A i \in DOMAIN last.before :
              /\ SamePayload(df[i], last.before[i])
              /\ df[i].table_number # last.before[i].table_number
                    => last.before[i].table_number \in {last.t1, last.t2}

\* C3 amended: the frame property holds for every frame in which no row is
\* tagged with the sentinel -999, for any a and b.
C3_SwapFrame ==
    (Swapped /\ Tagged(last.before, TEMP_ID) = {}) =>
        /\ Len(df) = Len(last.before)
        /\ \A i \in DOMAIN last.before :
              /\ SamePayload(df[i], last.before[i])
              /\ df[i].table_number # last.before[i].table_number
                    => last.before[i].table_number \in {last.t1, last.t2}

\* Two occupied tables were exchanged while a third row, tagged with
\* neither identifier, kept its table.
C3_Witness ==
    /\ Swapped
    /\ Tagged(last.before, TEMP_ID) = {}
    /\ last.t1 # last.t2
    /\ Tagged(last.before, last.t1) # {}
    /\ Tagged(last.before, last.t2) # {}
    /\ \E i \in DOMAIN last.before :
          /\ last.before[i].table_number \notin {last.t1, last.t2}
          /\ df[i] = last.before[i]
    /\ df # last.before

\* C4 as stated: a second swap_tables(c, a, b) directly after the first
\* gives back the frame the first call started from.
C4_Original ==
    (Swapped /\ last.repeat) => df = last.origin

\* C4 amended: the second call restores the frame when no row of the
\* original frame is tagged with the sentinel -999.
C4_SwapTwiceRestores ==
    (Swapped /\ last.repeat /\ Tagged(last.origin, TEMP_ID) = {})
        => df = last.origin

\* The same swap ran twice on two occupied tables; the first call changed
\* the frame and the second brought it back.
C4_Witness ==
    /\ Swapped
    /\ last.repeat
    /\ Tagged(last.origin, TEMP_ID) = {}
    /\ Tagged(last.origin, last.t1) # {}
    /\ Tagged(last.origin, last.t2) # {}
    /\ last.before # last.origin
    /\ df = last.origin

\* C5 as stated: swap_tables(c, a, a) changes no row and leaves no row
\* tagged with the sentinel.
C5_Original ==
    (Swapped /\ last.t1 = last.t2) =>
        /\ df = last.before
        /\ Tagged(df, TEMP_ID) = {}

\* C5 amended: on a frame with no row tagged -999, swap_tables(c, a, a)
\* changes no row and leaves no row tagged -999.
C5_SwapSameIsNoOp ==
    (Swapped /\ last.t1 = last.t2 /\ Tagged(last.before, TEMP_ID) = {}) =>
        /\ df = last.before
        /\ Tagged(df, TEMP_ID) = {}

\* swap_tables(c, a, a) ran on a table that has rows, next to unassigned
\* rows (table_number 0).
C5_Witness ==
    /\ Swapped
    /\ last.t1 = last.t2
    /\ Tagged(last.before, TEMP_ID) = {}
    /\ Tagged(last.before, last.t1) # {}
    /\ last.t1 # 0
    /\ Tagged(last.before, 0) # {}

(***************************************************************************)
(* Claims about the editor's handlers                                      *)
(***************************************************************************)
InGrid(d) == d \in 1..(rows * cols)

\* C8 as stated: a swap or edit-save whose display id is outside
\* 1..rows*cols is rejected (OutOfRange) before any mutation: the handler
\* leaves the frame as loaded and nothing is saved.  (No handler of the
\* editor ever reports OutOfRange: msgs never holds it.)
C8_Original ==
    (\/ last.op = "edit_save" /\ ~InGrid(last.d1)
     \/ last.op = "swap" /\ (~InGrid(last.d1) \/ ~InGrid(last.d2))) =>
        /\ last.result = last.before
        /\ load_data(store) = last.before
        /\ df = last.before

\* C9: "Save Changes" on table data_tid is a full replace: the rows tagged
\* data_tid afterwards are exactly the submitted rows with
\* table_number = data_tid, gp_name = the new group name and gp_id = 0; the
\* rows of every other table are unchanged; an empty submission leaves the
\* table without rows; a successful save persists that frame.
C9_EditSaveReplaces ==
    last.op = "edit_save" =>
        /\ SelectSeq(last.result, LAMBDA row : row.table_number = last.t1)
             = [i \in DOMAIN last.edited |->
                  [table_number |-> last.t1,
                   seat |-> last.edited[i].seat,
                   name |-> last.edited[i].name,
                   menu |-> last.edited[i].menu,
                   gp_id |-> 0,
                   gp_name |-> last.group]]
        /\ SelectSeq(last.result, LAMBDA row : row.table_number # last.t1)
             = SelectSeq(last.before, LAMBDA row : row.table_number # last.t1)
        /\ last.edited = <<>> => Tagged(last.result, last.t1) = {}
        /\ last.ok => load_data(store) = last.result

\* A table that had a row was saved with one submitted row while another
\* table's row stayed in the frame.
C9_Witness ==
    /\ last.op = "edit_save"
    /\ last.ok
    /\ Tagged(last.before, last.t1) # {}
    /\ \E i \in DOMAIN last.before : last.before[i].table_number # last.t1
    /\ Len(last.edited) = 1
    /\ df = last.result

\* C10: the renumber applies the id map to all rows at once: a row's new
\* table_number is id_map[old] when old is a key and old otherwise, also
\* when id_map[old] is itself a key; row count and payloads are unchanged.
C10_RenumberSimultaneous ==
    last.op = "renumber" =>
        /\ Len(last.result) = Len(last.before)
        /\ \A i \in DOMAIN last.before :
              /\ SamePayload(last.result[i], last.before[i])
              /\ last.result[i].table_number =
                    IF last.before[i].table_number \in DOMAIN last.id_map
                    THEN last.id_map[last.before[i].table_number]
                    ELSE last.before[i].table_number

\* A row moved from key 2 onto 3, which is itself a key mapped elsewhere,
\* and stayed there, next to a row that no key matches.
C10_Witness ==
    /\ last.op = "renumber"
    /\ \E i \in DOMAIN last.before :
          LET old == last.before[i].table_number
          IN  /\ old \in DOMAIN last.id_map
              /\ last.id_map[old] # old
              /\ last.id_map[old] \in DOMAIN last.id_map
              /\ last.id_map[last.id_map[old]] # last.id_map[old]
              /\ last.result[i].table_number = last.id_map[old]
    /\ \E i \in DOMAIN last.before :
          /\ last.before[i].table_number \notin DOMAIN last.id_map
          /\ last.result[i] = last.before[i]

(***************************************************************************)
(* Layout simulator (simulation_utils.py)                                  *)
(***************************************************************************)
\* sorted(values): the ascending sequence of a finite set of integers.
RECURSIVE sorted(_)
sorted(values) ==
    IF values = {}
    THEN <<>>
    ELSE LET least == CHOOSE v \in values : \A w \in values : v <= w
         IN  <<least>> \o sorted(values \ {least})

\* list.extend applied once per element of a list of lists.
RECURSIVE extend_all(_)
extend_all(lists) ==
    IF lists = <<>>
    THEN <<>>
    ELSE Head(lists) \o extend_all(Tail(lists))

\* df['table_number'].max(), 0 for an empty frame.
current_max(frame) ==
    IF frame # <<>>
    THEN LET values == {frame[i].table_number : i \in DOMAIN frame}
         IN  CHOOSE v \in values : \A w \in values : w <= v
    ELSE 0

new_tables_info_from_max(frame, target_ids) ==
    [i \in DOMAIN target_ids |->
        [new_id |-> current_max(frame) + (i - 1), target |-> target_ids[i]]]

\* One {new_id, target} per anchor: new_id = next_id_start + i, i from 0.
new_tables_info(frame, target_ids) ==
    LET next_id_start == current_max(frame) + 1
    IN  [i \in DOMAIN target_ids |->
            [new_id |-> next_id_start + (i - 1), target |-> target_ids[i]]]

generated_new_ids(info) == [i \in DOMAIN info |-> info[i].new_id]

\* sorted(df['table_number'].unique()) without the 0 entries.
unique_tables(frame) ==
    IF frame # <<>>
    THEN SelectSeq(sorted({frame[i].table_number : i \in DOMAIN frame}),
                   LAMBDA t : t # 0)
    ELSE <<>>

\* The keys of insertions_map in dict order: each target at its first
\* occurrence in the anchor list.
insertions_map_keys(info) ==
    LET firsts == sorted({i \in DOMAIN info :
                            \A j \in 1..(i - 1) : info[j].target # info[i].target})
    IN  [k \in DOMAIN firsts |-> info[firsts[k]].target]

\* insertions_map[target]: the new ids appended for target, in anchor order.
insertions_map_get(info, target) ==
    generated_new_ids(SelectSeq(info, LAMBDA e : e.target = target))

insertions_map_has(info, target) ==
    \E i \in DOMAIN info : info[i].target = target

new_order_front_none(info) == <<>>

\* if 0 in insertions_map: new_order.extend(insertions_map[0])
new_order_front(info) ==
    IF insertions_map_has(info, 0) THEN insertions_map_get(info, 0) ELSE <<>>

new_order_walk_insert_before(tables, info) ==
    extend_all([k \in DOMAIN tables |->
        (IF insertions_map_has(info, tables[k])
         THEN insertions_map_get(info, tables[k]) ELSE <<>>) \o <<tables[k]>>])

new_order_walk_unsorted(tables, info) ==
    extend_all([k \in DOMAIN tables |->
        <<tables[Len(tables) + 1 - k]>> \o
        (IF insertions_map_has(info, tables[Len(tables) + 1 - k])
         THEN insertions_map_get(info, tables[Len(tables) + 1 - k]) ELSE <<>>)])

\* for t in unique_tables: append t, then extend with insertions_map[t].
new_order_walk(tables, info) ==
    extend_all([k \in DOMAIN tables |->
        <<tables[k]>> \o
        (IF insertions_map_has(info, tables[k])
         THEN insertions_map_get(info, tables[k]) ELSE <<>>)])

new_order_unmatched_dropped(tables, info) == <<>>

\* for target, new_ids in insertions_map.items(): the targets that are
\* neither an existing table nor a processed 0, in dict order.
new_order_unmatched(tables, info) ==
    LET processed_targets ==
            {tables[k] : k \in DOMAIN tables} \cup
            (IF insertions_map_has(info, 0) THEN {0} ELSE {})
        keys == insertions_map_keys(info)
    IN  extend_all([k \in DOMAIN keys |->
            IF keys[k] \notin processed_targets
            THEN insertions_map_get(info, keys[k]) ELSE <<>>])

new_order(tables, info) ==
    IF tables = <<>>
    THEN generated_new_ids(info)
    ELSE new_order_front(info) \o new_order_walk(tables, info)
         \o new_order_unmatched(tables, info)

\* Mutant: the placeholder rows are left unassigned (table_number 0).
new_rows_unassigned(new_ids) ==
    [i \in DOMAIN new_ids |->
        [table_number |-> 0, name |-> "Reserved (Simulated)",
         gp_name |-> "SIMULATION", menu |-> "Reserve", seat |-> 1,
         gp_id |-> NaN]]

\* Mutant: the placeholder rows get seat 0.
new_rows_seat_zero(new_ids) ==
    [i \in DOMAIN new_ids |->
        [table_number |-> new_ids[i], name |-> "Reserved (Simulated)",
         gp_name |-> "SIMULATION", menu |-> "Reserve", seat |-> 0,
         gp_id |-> NaN]]

\* One placeholder row per new id; pd.concat leaves its gp_id missing.
new_rows(new_ids) ==
    [i \in DOMAIN new_ids |->
        [table_number |-> new_ids[i], name |-> "Reserved (Simulated)",
         gp_name |-> "SIMULATION", menu |-> "Reserve", seat |-> 1,
         gp_id |-> NaN]]

\* Returns (sim_df, new_order, generated_new_ids).
simulate_table_addition(frame, insert_after_ids) ==
    LET info == new_tables_info(frame, insert_after_ids)
    IN  [sim_df |-> frame \o new_rows(generated_new_ids(info)),
         new_order |-> new_order(unique_tables(frame), info),
         new_ids |-> generated_new_ids(info)]

(***************************************************************************)
(* Report projection (pdf_gen.py)                                          *)
(***************************************************************************)
\* A text cell is the concatenation of its fragments; the texts of the model
\* are cut so that a keyword of the report occurs in a text only as a whole
\* fragment.
Fragments(text) ==
    CASE text = "Simpanan A" -> <<"Simpanan", " A">>
      [] text = "Reserved (Simulated)" -> <<"Reserve", "d (Simulated)">>
      [] text = "RESERVED" -> <<"RESERVE", "D">>
      [] text = "Vacant 2" -> <<"Vacant", " 2">>
      [] text = "Meja Simpanan" -> <<"Meja ", "Simpanan">>
      [] text = "Vegetarian" -> <<"Vege", "tarian">>
      [] text = "Ayam/Ikan" -> <<"Ayam", "/", "Ikan">>
      [] OTHER -> <<text>>

\* str.lower() of one fragment.
lower(fragment) ==
    CASE fragment = "Simpanan" -> "simpanan"
      [] fragment = "Reserve" -> "reserve"
      [] fragment = "RESERVE" -> "reserve"
      [] fragment = "Vacant" -> "vacant"
      [] fragment = "Daging" -> "daging"
      [] fragment = "Ayam" -> "ayam"
      [] fragment = "Ikan" -> "ikan"
      [] fragment = "Vege" -> "vege"
      [] fragment = "Ali" -> "ali"
      [] fragment = "Siti" -> "siti"
      [] fragment = "Tetamu" -> "tetamu"
      [] fragment = "SIMULATION" -> "simulation"
      [] fragment = "VIP" -> "vip"
      [] fragment = "A" -> "a"
      [] fragment = "B" -> "b"
      [] fragment = " A" -> " a"
      [] fragment = "D" -> "d"
      [] fragment = "d (Simulated)" -> "d (simulated)"
      [] fragment = "Meja " -> "meja "
      [] OTHER -> fragment

\* column.astype(str).str.lower() of one cell (str(NaN) is "nan").
str_lower(text) ==
    [k \in DOMAIN Fragments(text) |-> lower(Fragments(text)[k])]

\* str.contains(pat) on a lower-cased cell.
str_contains(lowered, pat) ==
    \E k \in DOMAIN lowered : lowered[k] = pat

\* The row-wise reserve check.
is_reserved(row) ==
    LET names == str_lower(row.name)
        gp_names == str_lower(row.gp_name)
        menus == str_lower(row.menu)
    IN  \/ str_contains(names, "simpanan")
        \/ str_contains(names, "reserve")
        \/ str_contains(names, "vacant")
        \/ str_contains(gp_names, "simpanan")
        \/ str_contains(gp_names, "reserve")
        \/ str_contains(menus, "reserve")

\* menus.str.contains(pat).sum() over the rows of table_df.
menu_count(table_df, pat) ==
    Cardinality({i \in DOMAIN table_df :
                    str_contains(str_lower(table_df[i].menu), pat)})

\* is_reserved.sum() over the rows of table_df.
reserved_count(table_df) ==
    Cardinality({i \in DOMAIN table_df : is_reserved(table_df[i])})

summary_row_adjusted_total(frame, table_num) ==
    LET table_df == SelectSeq(frame, LAMBDA row : row.table_number = table_num)
    IN  [table_num |-> table_num,
         group_name |-> IF table_df[1].gp_name # NaN
                        THEN table_df[1].gp_name ELSE "",
         total_guests |-> Len(table_df),
         reserved |-> reserved_count(table_df),
         daging |-> menu_count(table_df, "daging"),
         ayam |-> menu_count(table_df, "ayam"),
         ikan |-> menu_count(table_df, "ikan"),
         vege |-> menu_count(table_df, "vege"),
         adjusted_total |-> Len(table_df)]

\* The aggregate row of one table of the loop; the numbers are the values
\* that str() prints into the cells.
summary_row(frame, table_num) ==
    LET table_df == SelectSeq(frame, LAMBDA row : row.table_number = table_num)
    IN  [table_num |-> table_num,
         group_name |-> IF table_df[1].gp_name # NaN
                        THEN table_df[1].gp_name ELSE "",
         total_guests |-> Len(table_df),
         reserved |-> reserved_count(table_df),
         daging |-> menu_count(table_df, "daging"),
         ayam |-> menu_count(table_df, "ayam"),
         ikan |-> menu_count(table_df, "ikan"),
         vege |-> menu_count(table_df, "vege"),
         adjusted_total |-> Len(table_df) - reserved_count(table_df)]

\* sum_x += x over the rows emitted so far.
RECURSIVE sum_column(_, _)
sum_column(data, column) ==
    IF data = <<>>
    THEN 0
    ELSE data[1][column] + sum_column(Tail(data), column)

summary_tables_keep_zero(frame, table_order, given) ==
    IF given
    THEN table_order
    ELSE sorted({frame[i].table_number : i \in DOMAIN frame})

\* The tables the loop visits: the given order without its 0 entries, or
\* the sorted distinct table numbers; the loop skips 0 again.
summary_tables(frame, table_order, given) ==
    LET unique ==
            IF given
            THEN SelectSeq(table_order, LAMBDA t : t # 0)
            ELSE sorted({frame[i].table_number : i \in DOMAIN frame})
    IN  SelectSeq(unique, LAMBDA t : t # 0)

\* The "Total" row: every accumulator after the loop.
summary_total_row(data) ==
    [total_guests |-> sum_column(data, "total_guests"),
     reserved |-> sum_column(data, "reserved"),
     daging |-> sum_column(data, "daging"),
     ayam |-> sum_column(data, "ayam"),
     ikan |-> sum_column(data, "ikan"),
     vege |-> sum_column(data, "vege"),
     adjusted_total |-> sum_column(data, "adjusted_total")]

\* The table of the summary report below its header row: data is the
\* per-table rows, total_row the "Total" row.  table_df.iloc[0] raises for
\* a table of the order that has no row; given says table_order is not None.
generate_table_summary(frame, table_order, given) ==
    LET tables == summary_tables(frame, table_order, given)
        raised == \E k \in DOMAIN tables :
                     \A i \in DOMAIN frame : frame[i].table_number # tables[k]
        data == [k \in DOMAIN tables |-> summary_row(frame, tables[k])]
    IN  IF raised
        THEN [raised |-> TRUE, data |-> <<>>, total_row |-> <<>>]
        ELSE [raised |-> FALSE,
              data |-> data,
              total_row |-> summary_total_row(data)]

\* The blocks of generate_guest_list_by_table: one per table of the sorted
\* distinct table numbers other than 0, with the number of its guest lines.
generate_guest_list_by_table(frame) ==
    LET unique_tables_ == SelectSeq(
            sorted({frame[i].table_number : i \in DOMAIN frame}),
            LAMBDA t : t # 0)
    IN  [k \in DOMAIN unique_tables_ |->
            [table_num |-> unique_tables_[k],
             guests |-> Len(SelectSeq(frame,
                           LAMBDA row : row.table_number = unique_tables_[k]))]]

BlankCell == [table_id |-> 0, gp_name |-> "", count |-> 0]

\* The cell generate_floor_plan_layout writes for linear index idx
\* (0-based); every gp_name of the model is at most 15 characters long and
\* is printed whole.
floor_plan_cell(frame, table_order, idx) ==
    IF idx < Len(table_order)
    THEN IF table_order[idx + 1] = 0
         THEN BlankCell
         ELSE LET table_df == SelectSeq(frame,
                      LAMBDA row : row.table_number = table_order[idx + 1])
              IN  [table_id |-> table_order[idx + 1],
                   gp_name |-> IF table_df # <<>>
                               THEN table_df[1].gp_name ELSE "",
                   count |-> Len(table_df)]
    ELSE BlankCell

\* Mutant: the linear index runs down the columns.
floor_plan_column_major(frame, table_order, n_rows, n_cols) ==
    [r \in 0..(n_rows - 1) |->
        [c \in 0..(n_cols - 1) |->
            floor_plan_cell(frame, table_order, (c * n_rows) + r)]]

\* grid_data[r][c] of generate_floor_plan_layout.
floor_plan(frame, table_order, n_rows, n_cols) ==
    [r \in 0..(n_rows - 1) |->
        [c \in 0..(n_cols - 1) |->
            floor_plan_cell(frame, table_order, (r * n_cols) + c)]]

(***************************************************************************)
(* Dashboard (main.py): live floor plan and the "Simulate Change" button   *)
(***************************************************************************)
DashboardLayouts == {"Sequential", "Odd/Even Split"}

\* One cell of the dashboard's grid_data: table_map.get(tid, vacant) under
\* the id tid.  The group is the first gp_name that is present, "Unknown"
\* when none is.
dashboard_cell(frame, tid) ==
    IF \A i \in DOMAIN frame : frame[i].table_number # tid
    THEN [id |-> tid, occupied |-> FALSE, group |-> "", count |-> 0]
    ELSE LET group == SelectSeq(frame, LAMBDA row : row.table_number = tid)
             named == SelectSeq(group, LAMBDA row : row.gp_name # NaN)
         IN  [id |-> tid,
              occupied |-> TRUE,
              group |-> IF named = <<>> THEN "Unknown" ELSE named[1].gp_name,
              count |-> Len(group)]

\* grid_data of the dashboard: the scheme's id is both shown and looked up.
dashboard_grid(frame, mode) ==
    [k \in 1..(DEFAULT_ROWS * DEFAULT_COLS) |->
        dashboard_cell(frame,
            IF mode = "Odd/Even Split"
            THEN get_table_id_oddeven((k - 1) \div DEFAULT_COLS,
                                      (k - 1) % DEFAULT_COLS, DEFAULT_COLS)
            ELSE get_table_id((k - 1) \div DEFAULT_COLS,
                              (k - 1) % DEFAULT_COLS, DEFAULT_COLS))]

\* table_number values of the sheet's rows.
SimTableNumbers == {0, 3, 5, 9}

SimFiles(max_len) ==
    UNION {{to_csv([i \in 1..n |-> GuestRow(i, tns[i])]) :
              tns \in [1..n -> SimTableNumbers]}
           : n \in 0..max_len}

\* What the text input parses to: a non-empty list of numbers without sign.
AnchorValues == {0, 5, 20, 30}

AnchorLists(max_len) ==
    UNION {[1..n -> AnchorValues] : n \in 1..max_len}

SimulateChange_in_place(insert_after_ids) ==
    \E loaded \in {load_data(store)} :
    \E sim \in {simulate_table_addition(loaded, insert_after_ids)} :
    \E pdf_buffer \in {generate_table_summary(sim.sim_df, sim.new_order,
                                               TRUE)} :
    \E fp_buffer \in {floor_plan(sim.sim_df, sim.new_order,
                                 DEFAULT_ROWS, DEFAULT_COLS)} :
        /\ df' = sim.sim_df
        /\ grid_data' = dashboard_grid(df', layout_view)
        /\ msgs' = IF pdf_buffer.raised
                   THEN {"Simulation failed"} ELSE {"Generated!"}
        /\ last' = [NoOp EXCEPT !.op = "simulate",
                                !.before = loaded,
                                !.result = sim.sim_df,
                                !.insert_after_ids = insert_after_ids,
                                !.new_order = sim.new_order,
                                !.new_ids = sim.new_ids,
                                !.summary = pdf_buffer,
                                !.floor_plan = fp_buffer]
        /\ UNCHANGED <<session, store, writes, runs>>

\* "Simulate Change": one script run of the dashboard.  The simulator
\* returns a new frame (pd.concat), the reports read that frame, and the
\* page is drawn from the frame load_data returned.
SimulateChange(insert_after_ids) ==
    \E loaded \in {load_data(store)} :
    \E sim \in {simulate_table_addition(loaded, insert_after_ids)} :
    \E pdf_buffer \in {generate_table_summary(sim.sim_df, sim.new_order,
                                               TRUE)} :
    \E fp_buffer \in {floor_plan(sim.sim_df, sim.new_order,
                                 DEFAULT_ROWS, DEFAULT_COLS)} :
        /\ df' = loaded
        /\ grid_data' = dashboard_grid(df', layout_view)
        /\ msgs' = IF pdf_buffer.raised
                   THEN {"Simulation failed"} ELSE {"Generated!"}
        /\ last' = [NoOp EXCEPT !.op = "simulate",
                                !.before = loaded,
                                !.result = sim.sim_df,
                                !.insert_after_ids = insert_after_ids,
                                !.new_order = sim.new_order,
                                !.new_ids = sim.new_ids,
                                !.summary = pdf_buffer,
                                !.floor_plan = fp_buffer]
        /\ UNCHANGED <<session, store, writes, runs>>

InitSim ==
    /\ rows = DEFAULT_ROWS
    /\ cols = DEFAULT_COLS
    /\ layout_view = "Sequential"
    /\ grid_mode = "View"
    /\ edit_target = None
    /\ store \in SimFiles(MaxSimRows)
    /\ df = load_data(store)
    /\ grid_data = dashboard_grid(df, layout_view)
    /\ msgs = {}
    /\ last = NoOp
    /\ writes = 0
    /\ runs = NoRuns

\* One press of the button on the list the text input holds.  A further
\* press on the same list repeats the run on the same file and ends in the
\* same state, a stuttering step.
NextSim ==
    /\ last.op = "none"
    /\ \E insert_after_ids \in AnchorLists(MaxAnchors) :
          SimulateChange(insert_after_ids)

SpecSim == InitSim /\ [][NextSim]_vars

(***************************************************************************)
(* Reports of the editor's sidebar (app.py)                                *)
(***************************************************************************)
\* (name, gp_name, menu) of the rows a guest file may hold: every keyword of
\* the reserve check in every column, and none of them.
ReportPayloads ==
    {[name |-> "Ali", gp_name |-> "A", menu |-> "Ayam"],
     [name |-> "Simpanan A", gp_name |-> "A", menu |-> "Daging"],
     [name |-> "RESERVED", gp_name |-> NaN, menu |-> "Ikan"],
     [name |-> "Vacant 2", gp_name |-> "B", menu |-> "Vegetarian"],
     [name |-> "Siti", gp_name |-> "Meja Simpanan", menu |-> "Ayam"],
     [name |-> "Siti", gp_name |-> "RESERVED", menu |-> "Ayam/Ikan"],
     [name |-> "Siti", gp_name |-> "Vacant 2", menu |-> "Ayam"],
     [name |-> "Ali", gp_name |-> "A", menu |-> "Reserve"],
     [name |-> "Ali", gp_name |-> "A", menu |-> "Simpanan"]}

ReportTableNumbers == {0, 1, 2}

ReportRows ==
    {[table_number |-> tn, seat |-> 1, name |-> p.name, menu |-> p.menu,
      gp_id |-> 0, gp_name |-> p.gp_name] :
        tn \in ReportTableNumbers, p \in ReportPayloads}

ReportFiles(max_len) ==
    UNION {{to_csv(frame) : frame \in [1..n -> ReportRows]} : n \in 0..max_len}

\* One script run of the editor with a non-empty frame: the sidebar builds
\* the guest list by table and the table summary from the live frame
\* (table_order is None), whose table_number column they rewrite with the
\* same numbers.
TableSummaryReport ==
    LET loaded == load_data(store)
        pdf3 == generate_table_summary(loaded, <<>>, FALSE)
    IN  /\ loaded # <<>>
        /\ df' = loaded
        /\ grid_data' = render_grid(df', rows, cols, layout_view)
        /\ msgs' = IF pdf3.raised THEN {"Error generating PDF"} ELSE {}
        /\ last' = [NoOp EXCEPT !.op = "summary",
                                !.before = loaded,
                                !.result = loaded,
                                !.guest_list =
                                    generate_guest_list_by_table(loaded),
                                !.summary = pdf3]
        /\ UNCHANGED <<session, store, writes, runs>>

InitSummary ==
    /\ rows = 1
    /\ cols = 2
    /\ layout_view = "Sequential"
    /\ grid_mode = "Move"
    /\ edit_target = None
    /\ store \in ReportFiles(MaxReportGuests)
    /\ df = load_data(store)
    /\ grid_data = render_grid(df, rows, cols, layout_view)
    /\ msgs = {}
    /\ last = NoOp
    /\ writes = 0
    /\ runs = NoRuns

NextSummary ==
    /\ last.op = "none"
    /\ TableSummaryReport

SpecSummary == InitSummary /\ [][NextSummary]_vars

(***************************************************************************)
(* Claims about the layout simulator (SpecSim)                             *)
(***************************************************************************)
\* The distinct table_number values of the frame the simulator was given.
Existing == {last.before[i].table_number : i \in DOMAIN last.before}

Minted == {last.new_ids[i] : i \in DOMAIN last.new_ids}

\* The ids minted for the anchors that lie in targets, in input order.
MintedFor(targets) ==
    LET picked == SelectSeq([i \in DOMAIN last.insert_after_ids |-> i],
                            LAMBDA i : last.insert_after_ids[i] \in targets)
    IN  [k \in DOMAIN picked |-> last.new_ids[picked[k]]]

\* The positions of the ordering that hold the identifier t.
PositionsOf(t) == {q \in DOMAIN last.new_order : last.new_order[q] = t}

\* C11: one new id per anchor, in input order: the i-th is max + i, where max
\* is the largest table_number of the input frame (0 for an empty frame);
\* the new ids are pairwise distinct and each exceeds every table_number of
\* the input frame.
C11_MintedSequentially ==
    last.op = "simulate" =>
        LET top == IF last.before = <<>>
                   THEN 0
                   ELSE CHOOSE v \in Existing : \A w \in Existing : w <= v
        IN  /\ Len(last.new_ids) = Len(last.insert_after_ids)
            /\ \A i \in DOMAIN last.new_ids : last.new_ids[i] = top + i
            /\ \A i, j \in DOMAIN last.new_ids :
                  i # j => last.new_ids[i] # last.new_ids[j]
            /\ \A i \in DOMAIN last.new_ids : \A r \in DOMAIN last.before :
                  last.new_ids[i] > last.before[r].table_number
            /\ last.before = <<>> => last.new_ids[1] = 1

\* Tables {5, 9} with anchors [5, 5, 20] mint [10, 11, 12].
C11_Witness ==
    /\ last.op = "simulate"
    /\ Existing = {5, 9}
    /\ last.insert_after_ids = <<5, 5, 20>>
    /\ last.new_ids = <<10, 11, 12>>

\* C12: every minted id occurs exactly once in the returned ordering.
C12_MintedOnceInOrder ==
    last.op = "simulate" =>
        \A i \in DOMAIN last.new_ids :
            Cardinality(PositionsOf(last.new_ids[i])) = 1

\* A non-empty frame with anchor 0 and a repeated anchor that matches no
\* table: all three new ids are in the ordering.
C12_Witness ==
    /\ last.op = "simulate"
    /\ Existing \ {0} # {}
    /\ last.insert_after_ids = <<20, 0, 20>>
    /\ \A i \in 1..3 : PositionsOf(last.new_ids[i]) # {}

\* C13 as stated: the ordering restricted to pre-existing identifiers is the
\* ascending sequence of all distinct table_number values of the input.
C13_Original ==
    last.op = "simulate" =>
        LET kept == SelectSeq(last.new_order, LAMBDA t : t \in Existing)
        IN  /\ {kept[k] : k \in DOMAIN kept} = Existing
            /\ \A k \in DOMAIN kept : \A m \in DOMAIN kept :
                  k < m => kept[k] < kept[m]

\* C13: the ordering restricted to pre-existing identifiers is the ascending
\* sequence of the distinct nonzero table_number values of the input, each
\* once; table_number 0 gives no entry.
C13_ExistingKeptAscending ==
    last.op = "simulate" =>
        LET kept == SelectSeq(last.new_order, LAMBDA t : t \in Existing)
        IN  /\ {kept[k] : k \in DOMAIN kept} = Existing \ {0}
            /\ \A k \in DOMAIN kept : \A m \in DOMAIN kept :
                  k < m => kept[k] < kept[m]

\* A frame whose rows are not in table order: the ordering keeps 5 and 9
\* ascending around the new id.
C13_Witness ==
    /\ last.op = "simulate"
    /\ Len(last.before) = 2
    /\ last.before[1].table_number = 9
    /\ last.before[2].table_number = 5
    /\ last.insert_after_ids = <<5>>
    /\ last.new_order = <<5, 10, 9>>

\* C14: for every existing nonzero table t that is an anchor, the ids minted
\* for t stand in the ordering directly after t, in input order, and every
\* later existing identifier comes after them.
C14_InsertedDirectlyAfterAnchor ==
    last.op = "simulate" =>
        \A t \in Existing \ {0} :
            LET minted_t == MintedFor({t})
            IN  minted_t # <<>> =>
                  \E p \in PositionsOf(t) :
                     /\ p + Len(minted_t) <= Len(last.new_order)
                     /\ SubSeq(last.new_order, p + 1, p + Len(minted_t))
                           = minted_t
                     /\ \A q \in DOMAIN last.new_order :
                           (q > p /\ last.new_order[q] \in Existing)
                              => q > p + Len(minted_t)

\* Tables {5, 9} with anchors [5, 5, 20] give [5, 10, 11, 9, 12].
C14_Witness ==
    /\ last.op = "simulate"
    /\ Existing = {5, 9}
    /\ last.insert_after_ids = <<5, 5, 20>>
    /\ last.new_order = <<5, 10, 11, 9, 12>>

\* C15 as stated: the ids minted for anchors that are not 0 and match no
\* existing table come after every existing identifier, in the order in
\* which their anchors occur in the input list.
C15_Original ==
    last.op = "simulate" =>
        LET unmatched == MintedFor(AnchorValues \ (Existing \cup {0}))
            placed == SelectSeq(last.new_order,
                         LAMBDA t : \E k \in DOMAIN unmatched : unmatched[k] = t)
        IN  /\ placed = unmatched
            /\ \A q \in DOMAIN last.new_order : \A k \in DOMAIN unmatched :
                  last.new_order[q] \in Existing =>
                     \A m \in PositionsOf(unmatched[k]) : q < m

\* C16: when 0 is an anchor and the frame has a nonzero table, the ids
\* minted for anchor 0 are the first entries of the ordering, in input
\* order, and the first existing identifier follows them.
C16_ZeroAnchorFirst ==
    (/\ last.op = "simulate"
     /\ \E i \in DOMAIN last.insert_after_ids : last.insert_after_ids[i] = 0
     /\ Existing \ {0} # {}) =>
        LET minted_0 == MintedFor({0})
            first == CHOOSE v \in Existing \ {0} :
                        \A w \in Existing \ {0} : v <= w
        IN  /\ Len(minted_0) < Len(last.new_order)
            /\ SubSeq(last.new_order, 1, Len(minted_0)) = minted_0
            /\ last.new_order[Len(minted_0) + 1] = first

\* Anchors [0, 5, 0] on tables {3, 5}: both ids of anchor 0 lead the order.
C16_Witness ==
    /\ last.op = "simulate"
    /\ Existing = {3, 5}
    /\ last.insert_after_ids = <<0, 5, 0>>
    /\ last.new_order = <<6, 8, 3, 5, 7>>

\* C17: the augmented frame is the input rows, unchanged, followed by one
\* placeholder row per minted id with name "Reserved (Simulated)", gp_name
\* "SIMULATION", menu "Reserve" and seat 1; its length is the input length
\* plus the number of anchors.
C17_AugmentedFrame ==
    last.op = "simulate" =>
        /\ Len(last.result) = Len(last.before) + Len(last.insert_after_ids)
        /\ SubSeq(last.result, 1, Len(last.before)) = last.before
        /\ \A i \in DOMAIN last.new_ids :
              LET row == last.result[Len(last.before) + i]
              IN  /\ row.table_number = last.new_ids[i]
                  /\ row.name = "Reserved (Simulated)"
                  /\ row.gp_name = "SIMULATION"
                  /\ row.menu = "Reserve"
                  /\ row.seat = 1

\* Two guests and two anchors: a frame of four rows.
C17_Witness ==
    /\ last.op = "simulate"
    /\ Len(last.before) = 2
    /\ Len(last.insert_after_ids) = 2
    /\ Len(last.result) = 4
    /\ last.result[4].table_number = last.new_ids[2]

\* C18: a simulate run changes neither the live frame nor the store.
C18_SimulationLeavesLiveData ==
    [][store' = store /\ df' = df /\ writes' = writes]_vars

\* After a simulation that produced report rows for new tables the page
\* still shows the stored guests only.
C18_Witness ==
    /\ last.op = "simulate"
    /\ df # <<>>
    /\ df = load_data(store)
    /\ Len(last.result) > Len(df)
    /\ ~last.summary.raised
    /\ msgs = {"Generated!"}

(***************************************************************************)
(* Claims about the table summary                                          *)
(***************************************************************************)
\* The reserve rule of the specification: name or group name holds
\* "simpanan", "reserve" or "vacant", or the menu holds "simpanan" or
\* "reserve".
ReservedAsSpecified(row) ==
    \/ \E kw \in {"simpanan", "reserve", "vacant"} :
          \/ str_contains(str_lower(row.name), kw)
          \/ str_contains(str_lower(row.gp_name), kw)
    \/ \E kw \in {"simpanan", "reserve"} :
          str_contains(str_lower(row.menu), kw)

\* C19 as stated: the reserved count of every table of the summary is the
\* number of its rows whose name or group name holds "simpanan", "reserve"
\* or "vacant", or whose menu holds "simpanan" or "reserve".
C19_Original ==
    (last.op = "summary" /\ ~last.summary.raised) =>
        \A k \in DOMAIN last.summary.data :
            last.summary.data[k].reserved =
                Cardinality({i \in DOMAIN last.before :
                    /\ last.before[i].table_number
                          = last.summary.data[k].table_num
                    /\ ReservedAsSpecified(last.before[i])})

\* C20: the summary of a simulation has one row per nonzero entry of the
\* ordering, in that order, each with the table's row count as total and
\* adjusted_total = total - reserved; the totals row holds, for every
\* numeric column, the sum of that column over the per-table rows.
C20_SummaryRowsAndTotals ==
    (last.op = "simulate" /\ ~last.summary.raised) =>
        LET tables == SelectSeq(last.new_order, LAMBDA t : t # 0)
            data == last.summary.data
            total_row == last.summary.total_row
        IN  /\ Len(data) = Len(tables)
            /\ \A k \in DOMAIN data :
                  /\ data[k].table_num = tables[k]
                  /\ data[k].total_guests =
                        Cardinality({i \in DOMAIN last.result :
                            last.result[i].table_number = tables[k]})
                  /\ data[k].adjusted_total
                        = data[k].total_guests - data[k].reserved
            /\ \A column \in {"total_guests", "reserved", "daging", "ayam",
                              "ikan", "vege", "adjusted_total"} :
                  total_row[column] = sum_column(data, column)

\* A summary of an ordering with an inserted table between two tables of
\* one guest each: the new table is reserved, the totals add up.
C20_Witness ==
    /\ last.op = "simulate"
    /\ ~last.summary.raised
    /\ last.new_order = <<5, 10, 9>>
    /\ Len(last.summary.data) = 3
    /\ last.summary.data[1].reserved = 0
    /\ last.summary.data[2].reserved = 1
    /\ last.summary.data[2].adjusted_total = 0
    /\ last.summary.total_row.total_guests = 3
    /\ last.summary.total_row.reserved = 1
    /\ last.summary.total_row.adjusted_total = 2

(***************************************************************************)
(* The table summary of a frame with unassigned guests, with and without   *)
(* a given order                                                           *)
(***************************************************************************)
OrderedFiles(max_len) ==
    UNION {{to_csv([i \in 1..n |-> GuestRow(i, tns[i])]) :
              tns \in [1..n -> ReportTableNumbers]}
           : n \in 1..max_len}

\* Orders a caller may pass as table_order, 0 entries included.
TableOrders(max_len) ==
    UNION {[1..n -> ReportTableNumbers] : n \in 0..max_len}

\* generate_table_summary(df, table_order=table_order) on the loaded frame.
OrderedSummary(table_order) ==
    \E loaded \in {load_data(store)} :
    \E pdf_buffer \in {generate_table_summary(loaded, table_order, TRUE)} :
        /\ df' = loaded
        /\ msgs' = IF pdf_buffer.raised THEN {"Simulation failed"} ELSE {}
        /\ last' = [NoOp EXCEPT !.op = "ordered_summary",
                                !.before = loaded,
                                !.result = loaded,
                                !.new_order = table_order,
                                !.summary = pdf_buffer]
        /\ UNCHANGED <<session, store, grid_data, writes, runs>>

InitOrdered ==
    /\ rows = 1
    /\ cols = 2
    /\ layout_view = "Sequential"
    /\ grid_mode = "Move"
    /\ edit_target = None
    /\ store \in OrderedFiles(MaxSimGuests)
    /\ df = load_data(store)
    /\ grid_data = render_grid(df, rows, cols, layout_view)
    /\ msgs = {}
    /\ last = NoOp
    /\ writes = 0
    /\ runs = NoRuns

NextOrdered ==
    /\ last.op = "none"
    /\ \/ TableSummaryReport
       \/ \E table_order \in TableOrders(MaxOrder) : OrderedSummary(table_order)

SpecOrdered == InitOrdered /\ [][NextOrdered]_vars

\* The rows of a frame that are assigned to a table.
Assigned(frame) == SelectSeq(frame, LAMBDA row : row.table_number # 0)

\* C21: rows with table_number 0 never reach the report: no per-table row
\* of the summary is for table 0, the summary is the one the frame without
\* its table-0 rows and the order without its 0 entries give, the totals of
\* a summary derived from the frame count the assigned rows only, and the
\* guest list by table has no block for table 0.
C21_ZeroNeverAggregated ==
    (last.op \in {"summary", "ordered_summary"} /\ ~last.summary.raised) =>
        /\ \A k \in DOMAIN last.summary.data :
              last.summary.data[k].table_num # 0
        /\ last.summary =
              generate_table_summary(
                  Assigned(last.before),
                  SelectSeq(last.new_order, LAMBDA t : t # 0),
                  last.op = "ordered_summary")
        /\ last.op = "summary" =>
              /\ last.summary.total_row.total_guests
                    = Len(Assigned(last.before))
              /\ \A k \in DOMAIN last.guest_list :
                    last.guest_list[k].table_num # 0
              /\ Len(last.guest_list) = Len(last.summary.data)

\* A summary in the order <<2, 0, 1>> of a frame with a guest at table 0:
\* two per-table rows, and the guest at 0 is not in the totals.
C21_Witness ==
    /\ last.op = "ordered_summary"
    /\ ~last.summary.raised
    /\ last.new_order = <<2, 0, 1>>
    /\ Len(last.before) = 3
    /\ \E i \in DOMAIN last.before : last.before[i].table_number = 0
    /\ Len(last.summary.data) = 2
    /\ last.summary.data[1].table_num = 2
    /\ last.summary.total_row.total_guests = 2

(***************************************************************************)
(* Claims about a failed save                                              *)
(***************************************************************************)
SuccessMessages == {"Saved!", "Swapped", "Renumbering Complete!"}

\* C22 as stated: when save_data returns False in a swap, an edit-save or a
\* renumber, the frame the page is drawn from is the last saved one, the
\* failure is reported and no success message is shown.
C22_Original ==
    (last.op \in {"swap", "edit_save", "renumber"} /\ ~last.ok) =>
        /\ df = load_data(store)
        /\ grid_data = render_grid(load_data(store), rows, cols, layout_view)
        /\ "Error saving data" \in msgs
        /\ msgs \cap SuccessMessages = {}

(***************************************************************************)
(* Dashboard (main.py): the numbering radio                                *)
(***************************************************************************)
\* One script run of the dashboard after the "Numbering Layout" radio is
\* set: the sheet is loaded and the live floor plan is built under the
\* chosen scheme.
DashboardSetLayout(layout_mode) ==
    /\ layout_view' = layout_mode
    /\ df' = load_data(store)
    /\ grid_data' = dashboard_grid(df', layout_mode)
    /\ msgs' = {}
    /\ last' = [NoOp EXCEPT !.op = "set_layout"]
    /\ UNCHANGED <<rows, cols, grid_mode, edit_target, store, writes, runs>>

NextDashboard ==
    \E layout_mode \in DashboardLayouts : DashboardSetLayout(layout_mode)

InitDashboard ==
    /\ rows = DEFAULT_ROWS
    /\ cols = DEFAULT_COLS
    /\ layout_view = "Sequential"
    /\ grid_mode = "View"
    /\ edit_target = None
    /\ store \in SimFiles(MaxSimGuests)
    /\ df = load_data(store)
    /\ grid_data = dashboard_grid(df, layout_view)
    /\ msgs = {}
    /\ last = NoOp
    /\ writes = 0
    /\ runs = NoRuns

SpecDashboard == InitDashboard /\ [][NextDashboard]_vars

\* C23 as stated: every cell handed to the grid component carries the
\* Sequential id of its position, k for the k-th cell in row-major order,
\* whatever the numbering scheme, and there are rows*cols cells.
C23_Original ==
    /\ Len(grid_data) = rows * cols
    /\ \A k \in DOMAIN grid_data : grid_data[k].id = k

(***************************************************************************)
(* Two editor sessions on one guest file                                   *)
(***************************************************************************)
\* A script run starts: df = load_data() (app.py l.113).
RunLoad(s) ==
    /\ runs[s].pc = "idle"
    /\ runs' = [runs EXCEPT ![s] = [pc |-> "loaded", df |-> load_data(store),
                                    saved |-> FALSE]]
    /\ UNCHANGED <<session, store, df, grid_data, msgs, last, writes>>

\* Mutant: the swap is applied to the file as it is when the save is made.
RunSwap_reload(s, d_t1, d_t2, ok) ==
    /\ runs[s].pc = "loaded"
    /\ d_t1 \in 1..(rows * cols)
    /\ d_t2 \in 1..(rows * cols)
    /\ d_t1 # d_t2
    /\ LET t1 == get_data_id_from_display_id(d_t1, rows, cols, layout_view)
           t2 == get_data_id_from_display_id(d_t2, rows, cols, layout_view)
           new_df == swap_tables(load_data(store), t1, t2)
       IN  /\ store' = IF ok THEN to_csv(new_df) ELSE store
           /\ msgs' = IF ok THEN {"Swapped"} ELSE {"Error saving data", "Swapped"}
           /\ last' = [NoOp EXCEPT !.op = "swap", !.d1 = d_t1, !.d2 = d_t2,
                                   !.t1 = t1, !.t2 = t2, !.before = runs[s].df,
                                   !.result = new_df, !.ok = ok,
                                   !.origin = load_data(store), !.by = s]
           /\ runs' = [runs EXCEPT ![s] = [pc |-> "done", df |-> new_df,
                                           saved |-> ok]]
    /\ UNCHANGED <<session, df, grid_data, writes>>

\* The rest of the run that a swap gesture started: the frame loaded at the
\* top of the run is relabelled and written over the file (l.388-397).
RunSwap(s, d_t1, d_t2, ok) ==
    /\ runs[s].pc = "loaded"
    /\ d_t1 \in 1..(rows * cols)
    /\ d_t2 \in 1..(rows * cols)
    /\ d_t1 # d_t2
    /\ LET t1 == get_data_id_from_display_id(d_t1, rows, cols, layout_view)
           t2 == get_data_id_from_display_id(d_t2, rows, cols, layout_view)
           new_df == swap_tables(runs[s].df, t1, t2)
       IN  /\ store' = IF ok THEN to_csv(new_df) ELSE store
           /\ msgs' = IF ok THEN {"Swapped"} ELSE {"Error saving data", "Swapped"}
           /\ last' = [NoOp EXCEPT !.op = "swap", !.d1 = d_t1, !.d2 = d_t2,
                                   !.t1 = t1, !.t2 = t2, !.before = runs[s].df,
                                   !.result = new_df, !.ok = ok,
                                   !.origin = load_data(store), !.by = s]
           /\ runs' = [runs EXCEPT ![s] = [pc |-> "done", df |-> new_df,
                                           saved |-> ok]]
    /\ UNCHANGED <<session, df, grid_data, writes>>

\* The rest of the run that "Save Changes" started, for the table the
\* session has open in its form (l.312-323).
RunSaveChanges(s, display_tid, new_group_name, edited_guests, ok) ==
    /\ runs[s].pc = "loaded"
    /\ display_tid \in 1..(rows * cols)
    /\ LET data_tid == edit_data_tid(display_tid, cols, layout_view)
           new_df == edit_save_frame(runs[s].df, data_tid, new_group_name,
                                     edited_guests)
       IN  /\ store' = IF ok THEN to_csv(new_df) ELSE store
           /\ msgs' = IF ok THEN {"Saved!"} ELSE {"Error saving data"}
           /\ last' = [NoOp EXCEPT !.op = "edit_save", !.d1 = display_tid,
                                   !.t1 = data_tid, !.before = runs[s].df,
                                   !.result = new_df, !.ok = ok,
                                   !.group = new_group_name,
                                   !.edited = edited_guests,
                                   !.origin = load_data(store), !.by = s]
           /\ runs' = [runs EXCEPT ![s] = [pc |-> "done", df |-> new_df,
                                           saved |-> ok]]
    /\ UNCHANGED <<session, df, grid_data, writes>>

\* Files of the shared store: MaxGuests rows, each at a table of the grid.
SharedFiles ==
    {to_csv([i \in 1..MaxGuests |-> GuestRow(i, tns[i])]) :
        tns \in [1..MaxGuests -> 1..MaxTable]}

InitTwoSessions ==
    /\ rows = 1
    /\ cols = MaxGridCols
    /\ layout_view = "Sequential"
    /\ grid_mode = "Move"
    /\ edit_target = None
    /\ store \in SharedFiles
    /\ df = load_data(store)
    /\ grid_data = render_grid(df, rows, cols, layout_view)
    /\ msgs = {}
    /\ last = NoOp
    /\ writes = 0
    /\ runs = NoRuns

\* Each session makes one run; the runs' steps interleave freely.
NextTwoSessions ==
    \E s \in Sessions :
        \/ RunLoad(s)
        \/ \E d_t1 \in 1..(rows * cols), d_t2 \in 1..(rows * cols),
              ok \in BOOLEAN : RunSwap(s, d_t1, d_t2, ok)
        \/ \E display_tid \in 1..(rows * cols),
              new_group_name \in GroupNames, edited_guests \in EditedGuests,
              ok \in BOOLEAN :
              RunSaveChanges(s, display_tid, new_group_name, edited_guests, ok)

SpecTwoSessions == InitTwoSessions /\ [][NextTwoSessions]_vars

\* C24: a save that succeeds writes the mutation of the frame its own run
\* loaded, whatever the file holds by then, and shows only its success
\* message: nothing compares the file with what was loaded.  (The state in
\* which this loses the other session's saved change is C24_Witness.)
C24_SaveOverwritesUnchecked ==
    (last.op \in {"swap", "edit_save"} /\ last.ok) =>
        /\ load_data(store) =
              IF last.op = "swap"
              THEN swap_tables(last.before, last.t1, last.t2)
              ELSE edit_save_frame(last.before, last.t1, last.group,
                                   last.edited)
        /\ msgs \subseteq SuccessMessages
        /\ msgs # {}

\* Both sessions saved.  The file held the other session's saved edit (the
\* guest "Aminah"), which this run had not loaded; after this run's swap is
\* saved the file no longer has that guest: the earlier change is gone.
C24_Witness ==
    \E s \in Sessions, p \in Sessions :
        /\ s # p
        /\ last.op = "swap" /\ last.by = s /\ last.ok
        /\ runs[s].saved /\ runs[p].saved
        /\ last.origin = runs[p].df
        /\ \E i \in DOMAIN last.origin : last.origin[i].name = "Aminah"
        /\ \A i \in DOMAIN last.before : last.before[i].name # "Aminah"
        /\ \A i \in DOMAIN load_data(store) :
              load_data(store)[i].name # "Aminah"
        /\ msgs = {"Swapped"}

(***************************************************************************)
(* Claims about the Odd/Even numbering of one row                          *)
(***************************************************************************)
\* The ids get_table_id_oddeven gives row r, by column.
OddEvenRow(r) == [i \in 1..cols |-> get_table_id_oddeven(r, i - 1, cols)]

\* C25: for every row of the grid, get_table_id_oddeven maps the columns
\* onto exactly the row's Sequential range r*cols+1 .. (r+1)*cols, the odd
\* values first and ascending, then the even values ascending; with four
\* columns row 0 reads 1, 3, 2, 4; and with nine columns Sequential table 10
\* is position (1, 0).
C25_OddEvenRowLocal ==
    /\ \A r \in 0..(rows - 1) :
          LET row_ids == OddEvenRow(r)
              row_range == ((r * cols) + 1)..((r + 1) * cols)
              n_odds == Cardinality({n \in row_range : n % 2 # 0})
          IN  /\ {row_ids[i] : i \in 1..cols} = row_range
              /\ \A i \in 1..cols : (row_ids[i] % 2 # 0) <=> (i <= n_odds)
              /\ \A i \in 1..cols, j \in 1..cols :
                    (i < j /\ (i <= n_odds <=> j <= n_odds))
                        => row_ids[i] < row_ids[j]
              /\ layout_view = "Odd/Even" =>
                    \A i \in 1..cols :
                        grid_data[(r * cols) + i].data_id = row_ids[i]
    /\ cols = 4 => OddEvenRow(0) = <<1, 3, 2, 4>>
    /\ (cols = 9 /\ rows >= 2) =>
          /\ get_table_id(1, 0, cols) = 10
          /\ \A p \in Positions :
                get_table_id(p[1], p[2], cols) = 10 => p = <<1, 0>>

C25_Witness ==
    /\ layout_view = "Odd/Even"
    /\ rows = 2
    /\ cols = 4
    /\ grid_data[6].data_id = 7
    /\ grid_data[7].data_id = 6

(***************************************************************************)
(* One swap gesture from every file, under both numberings                 *)
(***************************************************************************)
InitSwapGesture ==
    /\ rows = MaxGridRows
    /\ cols = MaxGridCols
    /\ layout_view \in LayoutViews
    /\ grid_mode = "Move"
    /\ edit_target = None
    /\ store \in Files(MaxGuests)
    /\ df = load_data(store)
    /\ grid_data = render_grid(df, rows, cols, layout_view)
    /\ msgs = {}
    /\ last = NoOp
    /\ writes = 0
    /\ runs = NoRuns

NextSwapGesture ==
    /\ last.op = "none"
    /\ \E d_t1 \in 1..(rows * cols), d_t2 \in 1..(rows * cols),
          ok \in BOOLEAN : SwapGesture(d_t1, d_t2, ok)

SpecSwapGesture == InitSwapGesture /\ [][NextSwapGesture]_vars

\* What a cell shows of its table.
Shown(cell) == <<cell.occupied, cell.group, cell.count>>

\* The cell whose content cell k takes over in a swap of cells d1 and d2.
Partner(k, d1, d2) == IF k = d1 THEN d2 ELSE IF k = d2 THEN d1 ELSE k

C27_RenumberKeepsPositions ==
    last.op = "renumber" =>
        /\ DOMAIN last.id_map = 1..(rows * cols)
        /\ {last.id_map[k] : k \in DOMAIN last.id_map} = 1..(rows * cols)
        /\ \A p \in Positions :
              last.id_map[get_table_id(p[1], p[2], cols)] =
                  get_table_id_oddeven(p[1], p[2], cols)
        /\ \A i \in DOMAIN last.before :
              last.before[i].table_number \notin 1..(rows * cols)
                  => last.result[i] = last.before[i]
        /\ last.ok =>
              /\ df = last.result
              /\ LET new_grid == render_grid(df, rows, cols, "Odd/Even")
                     old_grid == render_grid(last.before, rows, cols,
                                             "Sequential")
                 IN  \A k \in 1..(rows * cols) :
                        Shown(new_grid[k]) = Shown(old_grid[k])

\* A guest sat at Sequential table 2 of a three-column grid next to an
\* unassigned guest; after the save that guest is at table 3, which Odd/Even
\* numbering draws in the second cell.
C27_Witness ==
    /\ last.op = "renumber"
    /\ last.ok
    /\ cols = 3
    /\ Cardinality(Tagged(last.before, 2)) = 1
    /\ Tagged(last.before, 0) # {}
    /\ Tagged(df, 3) = Tagged(last.before, 2)
    /\ Tagged(df, 0) = Tagged(last.before, 0)
    /\ render_grid(df, rows, cols, "Odd/Even")[2].occupied
    /\ ~render_grid(df, rows, cols, "Sequential")[2].occupied

(***************************************************************************)
(* Any sequence of swaps on a frame that does not use the sentinel         *)
(***************************************************************************)
\* Frames whose rows carry table numbers 0..MaxTable only.
CleanFrames(max_len) ==
    UNION {{[i \in 1..n |-> GuestRow(i, tns[i])] : tns \in [1..n -> 0..MaxTable]}
           : n \in 0..max_len}

InitSwapSeq ==
    /\ rows = 1
    /\ cols = 1
    /\ layout_view = "Sequential"
    /\ grid_mode = "Move"
    /\ edit_target = None
    /\ store = <<>>
    /\ df \in CleanFrames(MaxSwapGuests)
    /\ grid_data = <<>>
    /\ msgs = {}
    /\ last = NoOp
    /\ writes = 0
    /\ runs = NoRuns

NextSwapSeq ==
    \E t1_id \in 0..MaxTable, t2_id \in 0..MaxTable : SwapCall(t1_id, t2_id)

SpecSwapSeq == InitSwapSeq /\ [][NextSwapSeq]_vars

\* C28: from a frame with no row tagged -999, after any number of swaps
\* with identifiers >= 0 no row is tagged -999, and a row tagged with
\* neither identifier of a swap comes out of it as it went in.
C28_SentinelNeverLeaks ==
    /\ Tagged(df, TEMP_ID) = {}
    /\ Swapped =>
          /\ Tagged(last.before, TEMP_ID) = {}
          /\ \A i \in DOMAIN last.before :
                last.before[i].table_number \notin {last.t1, last.t2}
                    => df[i] = last.before[i]

\* The same two occupied tables were swapped twice in a row, with a row
\* of an unassigned guest beside them; t1's rows went through the sentinel
\* both times and none is left there.
C28_Witness ==
    /\ Swapped
    /\ last.repeat
    /\ last.t1 # last.t2
    /\ last.t1 > 0 /\ last.t2 > 0
    /\ Tagged(last.before, last.t1) # {}
    /\ Tagged(last.before, last.t2) # {}
    /\ Tagged(df, last.t1) = Tagged(last.before, last.t2)
    /\ Tagged(df, 0) # {}
    /\ Tagged(df, 0) = Tagged(last.origin, 0)
    /\ Tagged(df, TEMP_ID) = {}

(***************************************************************************)
(* Claims about the simulator's ordering and the augmented frame           *)
(***************************************************************************)
\* C29: for a sheet with table_number values >= 0 and any anchor list,
\* every identifier of the returned ordering is nonzero and has at least
\* one row in the augmented frame, so the summary meets no empty row group
\* and has a row for every minted table.
C29_OrderingBackedByRows ==
    last.op = "simulate" =>
        /\ \A q \in DOMAIN last.new_order :
              /\ last.new_order[q] # 0
              /\ Tagged(last.result, last.new_order[q]) # {}
        /\ \A t \in Existing \ {0} :
              /\ PositionsOf(t) # {}
              /\ Tagged(last.result, t) = Tagged(last.before, t)
        /\ \A t \in Minted :
              /\ Cardinality(Tagged(last.result, t)) = 1
              /\ Tagged(last.before, t) = {}
        /\ ~last.summary.raised
        /\ \A t \in Minted :
              \E k \in DOMAIN last.summary.data :
                  /\ last.summary.data[k].table_num = t
                  /\ last.summary.data[k].total_guests = 1

\* A sheet with guests at table 0 and at table 5, anchors 0 and 5: both
\* minted tables are in the ordering and in the summary, table 0 in neither.
C29_Witness ==
    /\ last.op = "simulate"
    /\ Existing = {0, 5}
    /\ last.insert_after_ids = <<0, 5>>
    /\ last.new_order = <<6, 5, 7>>
    /\ ~last.summary.raised
    /\ Len(last.summary.data) = 3
    /\ last.summary.data[1].table_num = 6

(***************************************************************************)
(* generate_floor_plan_layout on its own: any ordering on any small grid   *)
(***************************************************************************)
\* generate_floor_plan_layout(df, table_order, rows, cols) on the loaded
\* frame.
FloorPlanLayout(table_order) ==
    \E loaded \in {load_data(store)} :
        /\ df' = loaded
        /\ msgs' = {}
        /\ last' = [NoOp EXCEPT !.op = "floor_plan",
                                !.before = loaded,
                                !.result = loaded,
                                !.new_order = table_order,
                                !.floor_plan = floor_plan(loaded, table_order,
                                                          rows, cols)]
        /\ UNCHANGED <<session, store, grid_data, writes, runs>>

InitFloorPlan ==
    /\ rows \in 1..MaxGridRows
    /\ cols \in 1..MaxGridRows
    /\ layout_view = "Sequential"
    /\ grid_mode = "View"
    /\ edit_target = None
    /\ store \in OrderedFiles(MaxReportGuests)
    /\ df = load_data(store)
    /\ grid_data = <<>>
    /\ msgs = {}
    /\ last = NoOp
    /\ writes = 0
    /\ runs = NoRuns

NextFloorPlan ==
    /\ last.op = "none"
    /\ \E table_order \in TableOrders(MaxPlanOrder) :
          FloorPlanLayout(table_order)

SpecFloorPlan == InitFloorPlan /\ [][NextFloorPlan]_vars

\* The cells of the plan that show table t.
CellsShowing(t) ==
    {p \in Positions : last.floor_plan[p[1]][p[2]].table_id = t}

\* C30: the floor plan is the row-major linearization of the ordering: cell
\* (r, c) shows the entry of index r*cols + c (0-based) when there is one
\* and it is not 0, and is blank otherwise; an identifier that the ordering
\* holds once is in exactly one cell when its index is below rows*cols and
\* in no cell when its index is rows*cols or more.
C30_FloorPlanRowMajor ==
    last.op = "floor_plan" =>
        /\ DOMAIN last.floor_plan = 0..(rows - 1)
        /\ \A p \in Positions :
              LET idx == (p[1] * cols) + p[2]
                  cell == last.floor_plan[p[1]][p[2]]
              IN  IF idx < Len(last.new_order) /\ last.new_order[idx + 1] # 0
                  THEN /\ cell.table_id = last.new_order[idx + 1]
                       /\ cell.count =
                             Cardinality(Tagged(last.before, cell.table_id))
                  ELSE cell = BlankCell
        /\ \A q \in DOMAIN last.new_order :
              (last.new_order[q] # 0 /\ PositionsOf(last.new_order[q]) = {q})
                  => Cardinality(CellsShowing(last.new_order[q])) =
                        IF q <= rows * cols THEN 1 ELSE 0

\* Ordering 0, 2, 0, 0, 1 on a 2 x 2 plan: table 2 is in the second cell of
\* the first row, the placeholders are blank and table 1, the fifth entry,
\* is in no cell.
C30_Witness ==
    /\ last.op = "floor_plan"
    /\ rows = 2
    /\ cols = 2
    /\ last.new_order = <<0, 2, 0, 0, 1>>
    /\ Tagged(last.before, 2) # {}
    /\ CellsShowing(2) = {<<0, 1>>}
    /\ CellsShowing(1) = {}
    /\ last.floor_plan[1][0] = BlankCell

====
